---- MODULE Spec2Model ----
(***************************************************************************)
(* A state-machine model of textbook_torch.py: the ConvNet classifier, the *)
(* train and test loops, and the top-level script that drives them.        *)
(*                                                                         *)
(* Abstractions.  Tensors are not modelled numerically.                    *)
(*  - The parameters are identified by their version theta: the number of  *)
(*    optimizer steps that produced them.  The Adadelta accumulators are   *)
(*    identified the same way by optState.                                 *)
(*  - The gradient buffers are the sequence of backward passes whose       *)
(*    gradients they currently hold (backward accumulates into .grad).     *)
(*  - The function the network computes is a fixed deterministic stand-in  *)
(*    (Cost) of the parameters, the image and the dropout mask; the mask   *)
(*    is 0 (nothing dropped) whenever the module is in evaluation mode and *)
(*    an arbitrary value when it is in training mode.                      *)
(*  - Losses are integers (loss units); a printed quotient is the pair     *)
(*    <<numerator, denominator>>.                                          *)
(*  - Shapes are modelled exactly.                                         *)
(***************************************************************************)
EXTENDS Integers, Sequences, FiniteSets, TLC

\* ------------------------------------------------------------------ bounds
\* Largest training set, in samples.
MaxTrainSamples == 3
\* batch_size of the training loader (32 in the script).
TrainBatchLen == 2
\* Largest test set, in samples.
MaxTestSamples == 3
\* batch_size of the test loader (500 in the script).
TestBatchLen == 2
\* Dropout masks are 0 (nothing dropped) .. MaxMask.
MaxMask == 1
\* Image geometries tried: channels 1..MaxChannels, sides 28 +/- SideSlack.
MaxChannels == 2
SideSlack == 1
\* Calls a caller other than the script makes, at most.
MaxCalls == 3

\* -------------------------------------------------------- program constants
NumEpochs == 2
LogEvery == 10
NumClasses == 10
Fc1In == 4608
Fc1Out == 64
Cn1Out == 16
Cn2Out == 32
KernelSize == 3
ConvStride == 1
PoolSize == 2

\* The geometry (channels, height, width) of an MNIST image after ToTensor.
MnistGeom == <<1, 28, 28>>

\* ---------------------------------------------------------------- datasets
\* A test sample is an image (identified by a small number) and its label.
Samples == {[img |-> 0, label |-> 0], [img |-> 1, label |-> 0],
            [img |-> 0, label |-> 1]}

\* All sequences over S of length lo..hi.
SeqsOf(S, lo, hi) == UNION {[1..n -> S] : n \in lo..hi}

\* All orders of the indices 1..n (RandomSampler: a random permutation).
Perms(n) == {p \in [1..n -> 1..n] : \A i, j \in 1..n : i # j => p[i] # p[j]}

\* SequentialSampler: the indices in order.
Identity(n) == [i \in 1..n |-> i]

\* len(dataloader): the number of batches of n samples in batches of k
\* (drop_last is False: a shorter last batch is kept).
NumBatches(n, k) == (n + k - 1) \div k

\* BatchSampler: batch b (0-indexed) of the sequence s in batches of k.
BatchAt(s, k, b) ==
  LET lo == b * k + 1
      hi == IF (b + 1) * k < Len(s) THEN (b + 1) * k ELSE Len(s)
  IN  SubSeq(s, lo, hi)

\* ------------------------------------------------------------------ shapes
\* nn.Conv2d on one spatial side: -1 when the kernel does not fit.
ConvSide(side, k, stride) ==
  IF side < k THEN -1 ELSE (side - k) \div stride + 1

\* F.max_pool2d on one spatial side (stride = window, floor mode).
PoolSide(side, k) == IF side < k THEN -1 ELSE (side - k) \div k + 1

\* nn.Conv2d(cin, cout, k, stride) on a shape <<N, C, H, W>>; <<>> is a fault.
Conv2dWrongKernel(x, cin, cout, k, stride) ==
  IF x[2] # cin \/ ConvSide(x[3], k + 2, stride) < 1
                \/ ConvSide(x[4], k + 2, stride) < 1
  THEN <<>>
  ELSE <<x[1], cout, ConvSide(x[3], k + 2, stride), ConvSide(x[4], k + 2, stride)>>

Conv2d(x, cin, cout, k, stride) ==
  IF x[2] # cin \/ ConvSide(x[3], k, stride) < 1 \/ ConvSide(x[4], k, stride) < 1
  THEN <<>>
  ELSE <<x[1], cout, ConvSide(x[3], k, stride), ConvSide(x[4], k, stride)>>

MaxPool2d(x, k) ==
  IF PoolSide(x[3], k) < 1 \/ PoolSide(x[4], k) < 1
  THEN <<>>
  ELSE <<x[1], x[2], PoolSide(x[3], k), PoolSide(x[4], k)>>

\* torch.flatten(x, 1)
Flatten(x) == <<x[1], x[2] * x[3] * x[4]>>

\* nn.Linear(nin, nout) on a shape <<N, F>>; <<>> is a fault.
LinearAnyWidth(x, nin, nout) == <<x[1], nout>>

Linear(x, nin, nout) == IF x[2] # nin THEN <<>> ELSE <<x[1], nout>>

\* ConvNet.forward on an input of shape x: the shapes after cn1, cn2,
\* max_pool2d, flatten, fc1 and fc2 (relu, dropout and log_softmax keep the
\* shape), up to the first layer that faults, and the name of that layer
\* ("none" when the pass goes through).  cn1 takes as many channels as an
\* MNIST image has.
ForwardShapes(x) ==
  LET a == Conv2d(x, MnistGeom[1], Cn1Out, KernelSize, ConvStride)
  IN  IF a = <<>> THEN [trace |-> <<>>, fault |-> "cn1"] ELSE
  LET b == Conv2d(a, Cn1Out, Cn2Out, KernelSize, ConvStride)
  IN  IF b = <<>> THEN [trace |-> <<a>>, fault |-> "cn2"] ELSE
  LET c == MaxPool2d(b, PoolSize)
  IN  IF c = <<>> THEN [trace |-> <<a, b>>, fault |-> "max_pool2d"] ELSE
  LET d == Flatten(c)
      e == Linear(d, Fc1In, Fc1Out)
  IN  IF e = <<>> THEN [trace |-> <<a, b, c, d>>, fault |-> "fc1"] ELSE
  LET f == Linear(e, Fc1Out, NumClasses)
  IN  IF f = <<>> THEN [trace |-> <<a, b, c, d, e>>, fault |-> "fc2"]
      ELSE [trace |-> <<a, b, c, d, e, f>>, fault |-> "none"]

\* The shape of a batch of n images of geometry g.
BatchShape(n, g) == <<n, g[1], g[2], g[3]>>

\* The image geometries tried: MNIST's, and those around it.
Geoms ==
  {<<c, h, w>> : c \in 1..MaxChannels,
                 h \in (MnistGeom[2] - SideSlack)..(MnistGeom[2] + SideSlack),
                 w \in (MnistGeom[3] - SideSlack)..(MnistGeom[3] + SideSlack)}

\* The batch sizes the two loaders can yield.
BatchLens == 1..(IF TrainBatchLen < TestBatchLen THEN TestBatchLen
                 ELSE TrainBatchLen)

\* ForwardShapes tabulated over the inputs the loaders can yield.
ShapesOf ==
  [x \in {BatchShape(n, g) : n \in BatchLens, g \in Geoms} |-> ForwardShapes(x)]

\* ------------------------------------------------------------- the network
Classes == 0 .. (NumClasses - 1)

\* The class the network favours for image img under parameters th and
\* dropout mask m: a fixed deterministic stand-in for the numeric function.
Peak(th, img, m) == (img + (th % 2) + m) % NumClasses

\* The negative log-probability (in loss units, >= 0) of class c.
Cost(th, img, m, c) == (c + NumClasses - Peak(th, img, m)) % NumClasses

\* F.log_softmax(x, dim=1) for one sample: its row of log-probabilities.
LogProbRow(th, img, m) == [c \in Classes |-> 0 - Cost(th, img, m, c)]

\* ConvNet.forward on the images xs: one row per image.
Forward(th, xs, m) == [i \in 1..Len(xs) |-> LogProbRow(th, xs[i], m)]

\* The masks the two dropout layers can draw: none in evaluation mode.
Masks(isTraining) == IF isTraining THEN 0..MaxMask ELSE {0}

\* sum over i of -rows[i][ys[i]]
RECURSIVE NllSum(_, _)
NllSum(rows, ys) ==
  IF Len(rows) = 0 THEN 0
  ELSE (0 - rows[1][ys[1]]) + NllSum(Tail(rows), Tail(ys))

\* F.nll_loss(pred_prob, y): the mean over the batch, as <<sum, count>>.
NllMean(rows, ys) == <<NllSum(rows, ys), Len(rows)>>

\* row.argmax(): the first class of largest log-probability.
ArgMax(row) ==
  CHOOSE c \in Classes :
    /\ \A d \in Classes : row[d] <= row[c]
    /\ \A d \in Classes : row[d] = row[c] => c <= d

\* pred.eq(y.view_as(pred)).sum(): how many arg-max classes equal the label.
RECURSIVE CountEq(_, _)
CountEq(rows, ys) ==
  IF Len(rows) = 0 THEN 0
  ELSE (IF ArgMax(rows[1]) = ys[1] THEN 1 ELSE 0) + CountEq(Tail(rows), Tail(ys))

\* Sample i of the training set (the content is immaterial to the loops;
\* only the log line reads a training loss).
TrainSample(i) == [img |-> i % 2, label |-> (i \div 2) % 2]

ImgsOf(batch) == [i \in 1..Len(batch) |-> batch[i].img]
LabelsOf(batch) == [i \in 1..Len(batch) |-> batch[i].label]

\* ------------------------------------------------------------------- state
VARIABLES
  pc,          \* the statement about to run
  epoch,       \* the script's loop variable / train's argument
  training,    \* model.training
  gradEnabled, \* torch.is_grad_enabled()
  theta,       \* the parameters' version
  optState,    \* the optimizer's accumulators' version
  grad,        \* the .grad buffers: the backward passes accumulated in them
  trainN,      \* len(train_dataloader.dataset)
  trainGeom,   \* the geometry of a training image
  testSet,     \* test_dataloader.dataset
  testGeom,    \* the geometry of a test image
  order,       \* the running iterator's sampler: the dataset indices in order
  pos,         \* batches the running iterator has yielded
  b_i,         \* train's enumerate index
  X,           \* the current batch's images
  y,           \* the current batch's labels
  pred_prob,   \* the last forward pass's output and what it was computed from
  loss,        \* train: the batch's mean loss; test: the running sum
  success,     \* test's success counter
  out,         \* the last line printed
  fault,       \* "none", or the layer that raised
  shapes,      \* the shapes the last forward pass went through
  calls,       \* history: the calls made so far and what each printed
  passSteps,   \* history: optimizer steps of the current train pass
  phases,      \* history: the statements run on the current batch
  seen         \* history: samples of the batches the current pass has finished

vars == <<pc, epoch, training, gradEnabled, theta, optState, grad,
          trainN, trainGeom, testSet, testGeom, order, pos, b_i, X, y,
          pred_prob, loss, success, out, fault, shapes, calls, passSteps,
          phases, seen>>

dataVars == <<trainN, trainGeom, testSet, testGeom>>
modelVars == <<theta, optState, grad>>
iterVars == <<order, pos>>
histVars == <<passSteps, phases, seen>>

\* The state after lines 121-153: loaders, seed, device, model, optimizer.
\* nn.Module starts in training mode; no gradient has been computed.
Construct ==
  /\ pc = "start"
  /\ epoch = 0
  /\ training = TRUE
  /\ gradEnabled = TRUE
  /\ theta = 0
  /\ optState = 0
  /\ grad = <<>>
  /\ order = <<>>
  /\ pos = 0
  /\ b_i = 0
  /\ X = <<>>
  /\ y = <<>>
  /\ pred_prob = [rows |-> <<>>, theta |-> 0, mask |-> 0, tracked |-> FALSE,
                  training |-> FALSE]
  /\ loss = 0
  /\ success = 0
  /\ out = [kind |-> "none"]
  /\ fault = "none"
  /\ shapes = <<>>
  /\ calls = <<>>
  /\ passSteps = 0
  /\ phases = <<>>
  /\ seen = 0

\* The script on MNIST-shaped data of any size within the bounds.
Init ==
  /\ Construct
  /\ trainN \in 1..MaxTrainSamples
  /\ testSet \in SeqsOf(Samples, 1, MaxTestSamples)
  /\ trainGeom = MnistGeom
  /\ testGeom = MnistGeom

\* ---------------------------------------------------------------- forward
\* model(X): the shapes are checked layer by layer; a mismatch raises.
\* Yields the new pred_prob, shapes and fault for images xs of geometry g.
ForwardResult(xs, g, m) ==
  LET sh == ShapesOf[BatchShape(Len(xs), g)]
  IN  [shapes |-> sh.trace,
       fault |-> sh.fault,
       pred |-> [rows |-> Forward(theta, xs, m), theta |-> theta, mask |-> m,
                 tracked |-> gradEnabled, training |-> training]]

\* ------------------------------------------------------------------- train
\* line 85: model.train()
TrainModeSkipped == training
TrainMode == TRUE

TrainSetMode ==
  /\ pc = "train_mode"
  /\ training' = TrainMode
  /\ pc' = "train_iter"
  /\ passSteps' = 0
  /\ phases' = <<>>
  /\ seen' = 0
  /\ UNCHANGED <<dataVars, modelVars, iterVars, epoch, gradEnabled, b_i, X, y,
                 pred_prob, loss, success, out, fault, shapes, calls>>

\* line 86: iter(train_dataloader); shuffle=True draws a fresh permutation.
TrainIter ==
  /\ pc = "train_iter"
  /\ order' \in Perms(trainN)
  /\ pos' = 0
  /\ pc' = "train_next"
  /\ UNCHANGED <<dataVars, modelVars, histVars, epoch, training, gradEnabled,
                 b_i, X, y, pred_prob, loss, success, out, fault, shapes, calls>>

\* enumerate's counter after one more batch.
NextIndexSkipping(i) == i + 2
NextIndex(i) == i + 1

\* lines 86-87: the next (b_i, (X, y)), or the end of the pass.
TrainNext ==
  /\ pc = "train_next"
  /\ IF pos < NumBatches(trainN, TrainBatchLen)
     THEN LET batch == [i \in 1..Len(BatchAt(order, TrainBatchLen, pos)) |->
                          TrainSample(BatchAt(order, TrainBatchLen, pos)[i])]
          IN  /\ b_i' = pos
              /\ X' = ImgsOf(batch)
              /\ y' = LabelsOf(batch)
              /\ pos' = NextIndex(pos)
              /\ phases' = <<>>
              /\ pc' = "train_zero_grad"
     ELSE /\ pc' = "train_ret"
          /\ UNCHANGED <<b_i, X, y, pos, phases>>
  /\ UNCHANGED <<dataVars, modelVars, order, epoch, training, gradEnabled,
                 pred_prob, loss, success, out, fault, shapes, calls,
                 passSteps, seen>>

\* optim.zero_grad(): the buffers hold nothing.
ZeroGradKeeping(g) == g
ZeroGrad(g) == <<>>

\* line 88
TrainZeroGrad ==
  /\ pc = "train_zero_grad"
  /\ grad' = ZeroGrad(grad)
  /\ phases' = Append(phases, "zero_grad")
  /\ pc' = "train_forward"
  /\ UNCHANGED <<dataVars, iterVars, theta, optState, epoch, training,
                 gradEnabled, b_i, X, y, pred_prob, loss, success, out, fault,
                 shapes, calls, passSteps, seen>>

\* line 89: pred_prob = model(X)
TrainForward ==
  /\ pc = "train_forward"
  /\ \E m \in Masks(training) :
       LET r == ForwardResult(X, trainGeom, m)
       IN  /\ shapes' = r.shapes
           /\ fault' = r.fault
           /\ IF r.fault = "none"
              THEN /\ pred_prob' = r.pred
                   /\ phases' = Append(phases, "forward")
                   /\ pc' = "train_loss"
              ELSE /\ pc' = "fault"
                   /\ UNCHANGED <<pred_prob, phases>>
  /\ UNCHANGED <<dataVars, modelVars, iterVars, epoch, training, gradEnabled,
                 b_i, X, y, loss, success, out, calls, passSteps, seen>>

\* line 90: loss = F.nll_loss(pred_prob, y)
TrainLoss ==
  /\ pc = "train_loss"
  /\ loss' = NllMean(pred_prob.rows, y)
  /\ phases' = Append(phases, "loss")
  /\ pc' = "train_backward"
  /\ UNCHANGED <<dataVars, modelVars, iterVars, epoch, training, gradEnabled,
                 b_i, X, y, pred_prob, success, out, fault, shapes, calls,
                 passSteps, seen>>

\* loss.backward(): adds this pass's gradient to the buffers.
Backward(g, contribution) == Append(g, contribution)

\* line 91
TrainBackward ==
  /\ pc = "train_backward"
  /\ grad' = Backward(grad, [batch |-> b_i, epoch |-> epoch,
                             theta |-> pred_prob.theta])
  /\ phases' = Append(phases, "backward")
  /\ pc' = "train_step"
  /\ UNCHANGED <<dataVars, iterVars, theta, optState, epoch, training,
                 gradEnabled, b_i, X, y, pred_prob, loss, success, out, fault,
                 shapes, calls, passSteps, seen>>

\* line 92: optim.step() moves every parameter that has a gradient and
\* advances the accumulators.
TrainOptimStep ==
  /\ pc = "train_step"
  /\ IF grad # <<>>
     THEN theta' = theta + 1 /\ optState' = optState + 1
     ELSE UNCHANGED <<theta, optState>>
  /\ passSteps' = passSteps + 1
  /\ seen' = seen + Len(X)
  /\ phases' = Append(phases, "step")
  /\ pc' = "train_log"
  /\ UNCHANGED <<dataVars, iterVars, grad, epoch, training, gradEnabled, b_i,
                 X, y, pred_prob, loss, success, out, fault, shapes, calls>>

\* lines 93-96: the progress line of every LogEvery-th batch.
TrainLog ==
  /\ pc = "train_log"
  /\ IF b_i % LogEvery = 0
     THEN out' = [kind |-> "train", epoch |-> epoch, batch |-> b_i,
                  done |-> b_i * Len(X), total |-> trainN,
                  percent |-> <<100 * b_i, NumBatches(trainN, TrainBatchLen)>>,
                  loss |-> loss, steps |-> passSteps]
     ELSE UNCHANGED out
  /\ pc' = "train_next"
  /\ UNCHANGED <<dataVars, modelVars, iterVars, histVars, epoch, training,
                 gradEnabled, b_i, X, y, pred_prob, loss, success, fault,
                 shapes, calls>>

\* -------------------------------------------------------------------- test
\* line 100: model.eval()
EvalModeSkipped == training
EvalMode == FALSE

TestSetMode ==
  /\ pc = "test_mode"
  /\ training' = EvalMode
  /\ pc' = "test_init"
  /\ UNCHANGED <<dataVars, modelVars, iterVars, histVars, epoch, gradEnabled,
                 b_i, X, y, pred_prob, loss, success, out, fault, shapes, calls>>

\* lines 101-102: loss = 0; success = 0
TestInit ==
  /\ pc = "test_init"
  /\ loss' = 0
  /\ success' = 0
  /\ pc' = "test_no_grad"
  /\ UNCHANGED <<dataVars, modelVars, iterVars, histVars, epoch, training,
                 gradEnabled, b_i, X, y, pred_prob, out, fault, shapes, calls>>

\* torch.no_grad(): gradient tracking inside the block.
GradLeftEnabled == TRUE
GradInNoGrad == FALSE

\* lines 103-104: enter torch.no_grad(); iter(test_dataloader), shuffle=False.
TestIter ==
  /\ pc = "test_no_grad"
  /\ gradEnabled' = GradInNoGrad
  /\ order' = Identity(Len(testSet))
  /\ pos' = 0
  /\ pc' = "test_next"
  /\ UNCHANGED <<dataVars, modelVars, histVars, epoch, training, b_i, X, y,
                 pred_prob, loss, success, out, fault, shapes, calls>>

\* lines 104-105: the next (X, y); at the end the no_grad block is left.
TestNext ==
  /\ pc = "test_next"
  /\ IF pos < NumBatches(Len(testSet), TestBatchLen)
     THEN LET batch == [i \in 1..Len(BatchAt(order, TestBatchLen, pos)) |->
                          testSet[BatchAt(order, TestBatchLen, pos)[i]]]
          IN  /\ X' = ImgsOf(batch)
              /\ y' = LabelsOf(batch)
              /\ pos' = NextIndex(pos)
              /\ pc' = "test_forward"
              /\ UNCHANGED gradEnabled
     ELSE /\ gradEnabled' = TRUE
          /\ pc' = "test_summary"
          /\ UNCHANGED <<X, y, pos>>
  /\ UNCHANGED <<dataVars, modelVars, histVars, order, epoch, training, b_i,
                 pred_prob, loss, success, out, fault, shapes, calls>>

\* line 106: pred_prob = model(X)
TestForward ==
  /\ pc = "test_forward"
  /\ \E m \in Masks(training) :
       LET r == ForwardResult(X, testGeom, m)
       IN  /\ shapes' = r.shapes
           /\ fault' = r.fault
           /\ IF r.fault = "none"
              THEN pred_prob' = r.pred /\ pc' = "test_add_loss"
              ELSE pc' = "fault" /\ UNCHANGED pred_prob
  /\ UNCHANGED <<dataVars, modelVars, iterVars, histVars, epoch, training,
                 gradEnabled, b_i, X, y, loss, success, out, calls>>

\* F.nll_loss(pred_prob, y, reduction='sum').item() as a number of loss units.
BatchLossMean(rows, ys) == NllSum(rows, ys) \div Len(rows)
BatchLossSum(rows, ys) == NllSum(rows, ys)

\* line 107: loss += F.nll_loss(pred_prob, y, reduction='sum').item()
TestAddLoss ==
  /\ pc = "test_add_loss"
  /\ loss' = loss + BatchLossSum(pred_prob.rows, y)
  /\ pc' = "test_add_success"
  /\ UNCHANGED <<dataVars, modelVars, iterVars, histVars, epoch, training,
                 gradEnabled, b_i, X, y, pred_prob, success, out, fault,
                 shapes, calls>>

\* lines 109-110: success += pred.eq(y.view_as(pred)).sum().item()
TestAddSuccess ==
  /\ pc = "test_add_success"
  /\ success' = success + CountEq(pred_prob.rows, y)
  /\ pc' = "test_next"
  /\ UNCHANGED <<dataVars, modelVars, iterVars, histVars, epoch, training,
                 gradEnabled, b_i, X, y, pred_prob, loss, out, fault, shapes,
                 calls>>

\* The call record on top of the history, with what the call printed.
WithOut(cs, line) == [cs EXCEPT ![Len(cs)].out = line]

\* lines 112-116: loss /= len(dataset); print the summary.
TestSummary ==
  /\ pc = "test_summary"
  /\ loss' = <<loss, Len(testSet)>>
  /\ out' = [kind |-> "test", loss |-> <<loss, Len(testSet)>>,
             success |-> success, total |-> Len(testSet),
             percent |-> <<100 * success, Len(testSet)>>]
  /\ calls' = WithOut(calls, out')
  /\ pc' = "test_ret"
  /\ UNCHANGED <<dataVars, modelVars, iterVars, histVars, epoch, training,
                 gradEnabled, b_i, X, y, pred_prob, success, fault, shapes>>

\* -------------------------------------------------------------------- demo
\* lines 169-170: b_i, (sample_data, sample_targets) = next(enumerate(loader))
DemoNext ==
  /\ pc = "demo_next"
  /\ order' = Identity(Len(testSet))
  /\ pos' = 1
  /\ b_i' = 0
  /\ LET batch == [i \in 1..Len(BatchAt(order', TestBatchLen, 0)) |->
                     testSet[BatchAt(order', TestBatchLen, 0)[i]]]
     IN  X' = ImgsOf(batch) /\ y' = LabelsOf(batch)
  /\ pc' = "demo_forward"
  /\ UNCHANGED <<dataVars, modelVars, histVars, epoch, training, gradEnabled,
                 pred_prob, loss, success, out, fault, shapes, calls>>

\* line 178: print(model(sample_data).data.max(1)[1][0])
DemoForward ==
  /\ pc = "demo_forward"
  /\ \E m \in Masks(training) :
       LET r == ForwardResult(X, testGeom, m)
       IN  /\ shapes' = r.shapes
           /\ fault' = r.fault
           /\ IF r.fault = "none"
              THEN /\ pred_prob' = r.pred
                   /\ out' = [kind |-> "prediction",
                              value |-> ArgMax(r.pred.rows[1])]
                   /\ pc' = "demo_truth"
              ELSE pc' = "fault" /\ UNCHANGED <<pred_prob, out>>
  /\ UNCHANGED <<dataVars, modelVars, iterVars, histVars, epoch, training,
                 gradEnabled, b_i, X, y, loss, success, calls>>

\* line 179: print(sample_targets[0])
DemoTruth ==
  /\ pc = "demo_truth"
  /\ out' = [kind |-> "truth", value |-> y[1]]
  /\ calls' = WithOut(calls, [prediction |-> out.value, truth |-> y[1]])
  /\ pc' = "demo_ret"
  /\ UNCHANGED <<dataVars, modelVars, iterVars, histVars, epoch, training,
                 gradEnabled, b_i, X, y, pred_prob, loss, success, fault,
                 shapes>>

\* The statements of train, test and the demo.
Body ==
  \/ TrainSetMode \/ TrainIter \/ TrainNext \/ TrainZeroGrad \/ TrainForward
  \/ TrainLoss \/ TrainBackward \/ TrainOptimStep \/ TrainLog
  \/ TestSetMode \/ TestInit \/ TestIter \/ TestNext \/ TestForward
  \/ TestAddLoss \/ TestAddSuccess \/ TestSummary
  \/ DemoNext \/ DemoForward \/ DemoTruth

\* ------------------------------------------------------------------ script
Call(f, e) == [f |-> f, epoch |-> e, out |-> <<>>]

\* range(1, 3): whether an epoch follows epoch e (0: none run yet).
EpochsLeftOneMore(e) == e <= NumEpochs
EpochsLeft(e) == e < NumEpochs

\* lines 161-162: for epoch in range(1, 3): train(...)
ScriptTrain ==
  /\ pc \in {"start", "test_ret"}
  /\ EpochsLeft(epoch)
  /\ epoch' = epoch + 1
  /\ calls' = Append(calls, Call("train", epoch'))
  /\ pc' = "train_mode"
  /\ UNCHANGED <<dataVars, modelVars, iterVars, histVars, training,
                 gradEnabled, b_i, X, y, pred_prob, loss, success, out, fault,
                 shapes>>

\* line 163: test(...)
ScriptTest ==
  /\ pc = "train_ret"
  /\ calls' = Append(calls, Call("test", 0))
  /\ pc' = "test_mode"
  /\ UNCHANGED <<dataVars, modelVars, iterVars, histVars, epoch, training,
                 gradEnabled, b_i, X, y, pred_prob, loss, success, out, fault,
                 shapes>>

\* line 169: the loop is over; the demo starts.
ScriptDemo ==
  /\ pc = "test_ret"
  /\ ~EpochsLeft(epoch)
  /\ calls' = Append(calls, Call("demo", 0))
  /\ pc' = "demo_next"
  /\ UNCHANGED <<dataVars, modelVars, iterVars, histVars, epoch, training,
                 gradEnabled, b_i, X, y, pred_prob, loss, success, out, fault,
                 shapes>>

Next == ScriptTrain \/ ScriptTest \/ ScriptDemo \/ Body

Spec == Init /\ [][Next]_vars

\* The interpreter runs the next statement whenever there is one.
FairSpec == Spec /\ WF_vars(Next)

\* ----------------------------------------------------------- other callers
\* train and test called in any order by a caller other than the script, on
\* the same loaders, model and optimizer; the demo inference, as in the
\* script, comes last if it comes at all.
OtherCall ==
  /\ pc \in {"start", "train_ret", "test_ret"}
  /\ Len(calls) < MaxCalls
  /\ \E f \in {"train", "test", "demo"} :
       /\ epoch' = IF f = "train" THEN epoch + 1 ELSE epoch
       /\ calls' = Append(calls, Call(f, IF f = "train" THEN epoch' ELSE 0))
       /\ pc' = CASE f = "train" -> "train_mode"
                  [] f = "test" -> "test_mode"
                  [] f = "demo" -> "demo_next"
  /\ UNCHANGED <<dataVars, modelVars, iterVars, histVars, training,
                 gradEnabled, b_i, X, y, pred_prob, loss, success, out, fault,
                 shapes>>

NextCalls == OtherCall \/ Body

\* Any test set within the bounds; a training set of one batch.
InitCalls ==
  /\ Construct
  /\ trainN \in 1..TrainBatchLen
  /\ testSet \in SeqsOf(Samples, 1, MaxTestSamples)
  /\ trainGeom = MnistGeom
  /\ testGeom = MnistGeom

SpecCalls == InitCalls /\ [][NextCalls]_vars

\* ------------------------------------------------------- other geometries
\* The script on datasets whose images have any of these geometries: both
\* loaders' images of one geometry, or one loader's of MNIST's.
InitGeom ==
  /\ Construct
  /\ trainN \in 1..MaxTrainSamples
  /\ testSet \in SeqsOf({[img |-> 0, label |-> 0]}, 1, MaxTestSamples)
  /\ trainGeom \in Geoms
  /\ testGeom \in Geoms
  /\ trainGeom = MnistGeom \/ testGeom = MnistGeom \/ trainGeom = testGeom

SpecGeom == InitGeom /\ [][Next]_vars

\* ------------------------------------------------------------ properties
\* len(train_dataloader)
TrainBatches == NumBatches(trainN, TrainBatchLen)
\* len(test_dataloader)
TestBatches == NumBatches(Len(testSet), TestBatchLen)

TrainBatchPcs ==
  {"train_zero_grad", "train_forward", "train_loss", "train_backward",
   "train_step", "train_log"}
TrainPcs == TrainBatchPcs \cup {"train_iter", "train_next", "train_ret"}
TestPcs ==
  {"test_mode", "test_init", "test_no_grad", "test_next", "test_forward",
   "test_add_loss", "test_add_success", "test_summary", "test_ret"}
DemoPcs == {"demo_next", "demo_forward", "demo_truth", "demo_ret"}

\* The call that is running, or ran last.
Top == calls[Len(calls)]

\* C1: one call of train is exactly one pass over the batch source.  The
\* batch in hand is always batch number passSteps of the order the sampler
\* drew (none skipped, none reordered, none repeated), every finished batch
\* got exactly one optimizer step, which moved the parameters by one version,
\* and the pass returns after exactly len(train_dataloader) steps, having
\* seen every sample of the dataset once.
C1_OnePass ==
  /\ pc \in TrainPcs \ {"train_iter"} => order \in Perms(trainN)
  /\ pc \in TrainBatchPcs =>
       /\ b_i < TrainBatches
       /\ pos = b_i + 1
       /\ X = [i \in 1..Len(BatchAt(order, TrainBatchLen, b_i)) |->
                 TrainSample(BatchAt(order, TrainBatchLen, b_i)[i]).img]
       /\ y = [i \in 1..Len(BatchAt(order, TrainBatchLen, b_i)) |->
                 TrainSample(BatchAt(order, TrainBatchLen, b_i)[i]).label]
  /\ pc \in TrainBatchPcs \ {"train_log"} => passSteps = b_i
  /\ pc = "train_log" => passSteps = b_i + 1
  /\ pc = "train_next" => passSteps = pos
  /\ pc \in TrainPcs \ {"train_iter"} =>
       theta = (epoch - 1) * TrainBatches + passSteps
  /\ pc = "train_ret" => passSteps = TrainBatches /\ seen = trainN

\* C1's case: the second pass has returned after two batches.
C1_Witness == pc = "train_ret" /\ epoch = 2 /\ passSteps = 2

\* C2: within every training batch the statements run in the order
\* zero_grad, forward, loss, backward, step (then the log line), and at every
\* optimizer step the gradient buffers hold the backward pass of the current
\* batch alone.
C2_StepOrder ==
  /\ pc = "train_zero_grad" => phases = <<>>
  /\ pc = "train_forward" => phases = <<"zero_grad">>
  /\ pc = "train_loss" => phases = <<"zero_grad", "forward">>
  /\ pc = "train_backward" => phases = <<"zero_grad", "forward", "loss">>
  /\ pc = "train_step" =>
       /\ phases = <<"zero_grad", "forward", "loss", "backward">>
       /\ grad = <<[batch |-> b_i, epoch |-> epoch, theta |-> theta]>>
  /\ pc = "train_log" =>
       /\ phases = <<"zero_grad", "forward", "loss", "backward", "step">>
       /\ grad = <<[batch |-> b_i, epoch |-> epoch, theta |-> theta - 1]>>

\* C2's case: the optimizer is about to step on a later batch of a later epoch.
C2_Witness == pc = "train_step" /\ epoch = 2 /\ b_i = 1

\* What one pass over the whole test set must add up to, sample by sample,
\* with dropout off.
TestRows == Forward(theta, ImgsOf(testSet), 0)
TotalLoss == NllSum(TestRows, LabelsOf(testSet))
TotalSuccess == CountEq(TestRows, LabelsOf(testSet))
\* The same over the samples of the first b batches.
SamplesIn(b) == IF b * TestBatchLen < Len(testSet) THEN b * TestBatchLen
                ELSE Len(testSet)
LossUpTo(b) ==
  NllSum(SubSeq(TestRows, 1, SamplesIn(b)),
         SubSeq(LabelsOf(testSet), 1, SamplesIn(b)))
SuccessUpTo(b) ==
  CountEq(SubSeq(TestRows, 1, SamplesIn(b)),
          SubSeq(LabelsOf(testSet), 1, SamplesIn(b)))

\* C3: one call of test visits every batch once; both accumulators start at
\* 0; after each batch they hold the sum of the per-sample losses and the
\* number of correct arg-max predictions of the samples seen so far; at the
\* end they hold those of the whole dataset, and the line printed carries the
\* sum divided by the dataset size and success / dataset size; success stays
\* within 0..dataset size throughout.
C3_TestTotals ==
  /\ pc = "test_no_grad" => loss = 0 /\ success = 0
  /\ pc \in {"test_next", "test_summary"} =>
       loss = LossUpTo(pos) /\ success = SuccessUpTo(pos)
  /\ pc \in TestPcs \ {"test_mode", "test_init"} =>
       0 <= success /\ success <= Len(testSet)
  /\ pc = "test_summary" =>
       pos = TestBatches /\ loss = TotalLoss /\ success = TotalSuccess
  /\ pc = "test_ret" =>
       out = [kind |-> "test", loss |-> <<TotalLoss, Len(testSet)>>,
              success |-> TotalSuccess, total |-> Len(testSet),
              percent |-> <<100 * TotalSuccess, Len(testSet)>>]

\* C3's case: a pass over two batches has printed, with some samples right
\* and some wrong.
C3_Witness ==
  /\ pc = "test_ret"
  /\ TestBatches = 2
  /\ 0 < out.success /\ out.success < out.total
  /\ out.loss[1] > 0

\* C4: the parameters and the optimizer's accumulators change only in the
\* optimizer step of train: no statement of test, of the demo or of the
\* script changes them (nor the gradient buffers), every forward pass of test
\* runs with gradient tracking off, and the accumulators the second epoch
\* steps on are those the first epoch left.
C4_Frame ==
  [][/\ pc # "train_step" => theta' = theta /\ optState' = optState
     /\ pc \in TestPcs \cup DemoPcs => grad' = grad
     /\ pc = "test_forward" /\ pc' = "test_add_loss" => ~pred_prob'.tracked
     /\ pc = "train_step" /\ epoch = 2 =>
          /\ optState = TrainBatches + passSteps
          /\ optState' = optState + 1]_vars

\* C4's case: both tests and the demo have run on a model that was stepped
\* in both epochs.
C4_Witness ==
  pc = "demo_ret" /\ theta = 2 * TrainBatches /\ optState = 2 * TrainBatches

\* The calls the script is to make, in order.
Plan ==
  <<[f |-> "train", epoch |-> 1], [f |-> "test", epoch |-> 0],
    [f |-> "train", epoch |-> 2], [f |-> "test", epoch |-> 0],
    [f |-> "demo", epoch |-> 0]>>

C5_Order ==
  /\ Len(calls) <= Len(Plan)
  /\ \A i \in 1..Len(calls) :
       calls[i].f = Plan[i].f /\ calls[i].epoch = Plan[i].epoch
  /\ pc \in TrainPcs \cup {"train_mode"} =>
       Top.f = "train" /\ Top.epoch = epoch
  /\ pc \in TestPcs => Top.f = "test" /\ theta = epoch * TrainBatches
  /\ pc \in DemoPcs =>
       Len(calls) = Len(Plan) /\ epoch = 2 /\ theta = 2 * TrainBatches
  /\ pc \in DemoPcs \ {"demo_next"} =>
       /\ b_i = 0
       /\ X = ImgsOf(SubSeq(testSet, 1, SamplesIn(1)))
       /\ y = LabelsOf(SubSeq(testSet, 1, SamplesIn(1)))
  /\ pc = "demo_ret" =>
       /\ Top.out = [prediction |-> ArgMax(LogProbRow(theta, testSet[1].img, 0)),
                     truth |-> testSet[1].label]
       /\ ~ENABLED Next

\* C5: the script calls train(1), test, train(2), test and then the demo, in
\* that order and nothing else; each test runs on the parameters left by all
\* the steps of its epoch's training pass; the demo takes the first test
\* batch, prints the prediction for its first sample and that sample's label;
\* and the program ends after the demo.
C5_Script == [](C5_Order) /\ <>(pc = "demo_ret")

\* C5's case: the script has run to its end.
C5_Witness == pc = "demo_ret" /\ Len(calls) = 5 /\ Top.f = "demo"

\* C6 as claimed: the progress line is printed after the optimizer step of
\* exactly the batches whose index is divisible by 10, and reports the epoch,
\* the number of samples processed so far, the dataset size, the percentage
\* and the batch's loss.
C6_LogLine ==
  pc = "train_next" /\ passSteps > 0 =>
    IF b_i % 10 = 0
    THEN /\ out.kind = "train"
         /\ out.epoch = epoch
         /\ out.batch = b_i
         /\ out.steps = b_i + 1
         /\ out.done = seen
         /\ out.total = trainN
         /\ out.loss = loss
    ELSE out.kind = "train" => out.batch # b_i

\* C7: two calls of test in a row (nothing between them changes the model)
\* print the same mean loss and the same accuracy, whatever was called
\* before them.
C7_Idempotent ==
  \A i \in 1..(Len(calls) - 1) :
    calls[i].f = "test" /\ calls[i + 1].f = "test" /\ calls[i + 1].out # <<>>
      => calls[i + 1].out = calls[i].out

\* C7's case: train left the model in training mode, then test ran twice.
C7_Witness ==
  /\ Len(calls) = 3
  /\ calls[1].f = "train" /\ calls[2].f = "test" /\ calls[3].f = "test"
  /\ pc = "test_ret"
  /\ calls[3].out.loss[1] > 0

\* C8: on a batch of N >= 1 MNIST images the forward pass goes through the
\* shapes (N,16,26,26), (N,32,24,24), (N,32,12,12), (N,4608), (N,64) and
\* (N,10), and returns N rows of 10 log-probabilities; no forward pass on
\* MNIST images faults.
C8_Shapes ==
  /\ pc # "fault" /\ fault = "none"
  /\ pc \in {"train_loss", "test_add_loss", "demo_truth"} =>
    LET N == Len(X)
    IN  /\ N >= 1
        /\ shapes = <<<<N, 16, 26, 26>>, <<N, 32, 24, 24>>, <<N, 32, 12, 12>>,
                      <<N, 4608>>, <<N, 64>>, <<N, 10>>>>
        /\ Len(pred_prob.rows) = N
        /\ \A i \in 1..N : DOMAIN pred_prob.rows[i] = 0..9

\* C8's case: a forward pass on a batch of one image.
C8_Witness == pc = "train_loss" /\ Len(X) = 1 /\ shapes # <<>>

\* The geometry of the images of the loader the running call reads.
GeomInUse == IF Top.f = "train" THEN trainGeom ELSE testGeom

AfterForwardPcs ==
  {"train_loss", "train_backward", "train_step", "train_log",
   "test_add_loss", "test_add_success", "demo_truth", "demo_ret"}

Takes(g) == g[1] = 1 /\ 32 * ((g[2] - 4) \div 2) * ((g[3] - 4) \div 2) = 4608

C10_Modes ==
  /\ pc = "train_forward" => training
  /\ pc \in {"train_loss", "train_backward", "train_step", "train_log"} =>
       pred_prob.training
  /\ pc = "test_forward" => ~training
  /\ pc \in {"test_add_loss", "test_add_success"} =>
       ~pred_prob.training /\ pred_prob.mask = 0
  /\ pc \in {"demo_forward"} /\ Len(calls) > 1 /\ calls[Len(calls) - 1].f = "test"
       => ~training
  /\ pc \in {"demo_truth", "demo_ret"} /\ Len(calls) > 1
       /\ calls[Len(calls) - 1].f = "test" => ~pred_prob.training

\* C10's case: the demo's forward pass has run after train then test.
C10_Witness ==
  /\ pc = "demo_truth"
  /\ Len(calls) = 3
  /\ calls[1].f = "train" /\ calls[2].f = "test"

====
